---- MODULE Spec2Model ----
(***************************************************************************)
(* Fire Station Command Center (src/app.py): the dispatch handler          *)
(* dispatch_incident, the route policy ai_route, the chart and map         *)
(* renderers, and the in-memory history incident_log.                      *)
(*                                                                         *)
(* Representation.  TLA+ strings are ASCII, so the pictographs that prefix *)
(* the labels of the source ("Fire Engine 1", "Emergency Green Corridor",  *)
(* the report headings) are left out of the string values; nothing in the  *)
(* program inspects them.  A latitude or longitude is what the caller      *)
(* passed: a str, held as the sequence of its Unicode code points so that  *)
(* float() can be modelled by its grammar and its rounding, or None.  A    *)
(* multi-line text (stage_msg, report) is the sequence of its lines.  A    *)
(* rendered image is the data drawn on it.                                 *)
(*                                                                         *)
(* Calls.  dispatch_incident is an ordinary function over module globals   *)
(* and sleeps three times, so a call can begin while another is under way; *)
(* every variable local to a call is a function of the worker (thread)     *)
(* running it, and is gone when the call ends.  What a call hands to its   *)
(* caller, the five outputs or an exception, is in result and error in the *)
(* state its last step leads to.  Spec lets calls overlap; SpecSequential  *)
(* is the session of one user who waits for each call to end.              *)
(***************************************************************************)
EXTENDS Integers, Sequences, FiniteSets, TLC

\* ------------------------------------------------------------------ bounds
\* Number of dispatch requests in one session of the process.
MaxCalls == 2

\* ------------------------------------------------------------ sample data
VehicleRoster ==
    [v \in {"Fire Engine 1", "Fire Engine 2", "Rescue Van 1"} |->
        CASE v = "Fire Engine 1" -> <<"Officer A", "Officer B", "Officer C">>
          [] v = "Fire Engine 2" -> <<"Officer D", "Officer E">>
          [] v = "Rescue Van 1"  -> <<"Officer F", "Officer G">>]

equipment_list ==
    <<"Fire Extinguisher", "Water Hose", "Oxygen Cylinder",
      "Hydraulic Cutter", "Protective Gear">>

\* The choices of the severity radio button.
SeverityChoices == {"Low", "Medium", "High"}

\* -------------------------------------------------------- sequence helpers
Range(s) == {s[i] : i \in 1..Len(s)}
Min(S) == CHOOSE x \in S : \A y \in S : x <= y
Max(S) == CHOOSE x \in S : \A y \in S : x >= y

\* sep.join(parts)
RECURSIVE Join(_, _)
Join(parts, sep) ==
    IF parts = <<>> THEN ""
    ELSE IF Len(parts) = 1 THEN parts[1]
    ELSE parts[1] \o sep \o Join(Tail(parts), sep)

\* ------------------------------------------------------------ text of a str
\* The printable ASCII characters, from the space (code point 32) on; the
\* grave accent, which a string of this notation cannot hold, by its number.
AsciiPrintable ==
    <<" ", "!", "\"", "#", "$", "%", "&", "'", "(", ")", "*", "+",
       ",", "-", ".", "/", "0", "1", "2", "3", "4", "5", "6", "7",
       "8", "9", ":", ";", "<", "=", ">", "?", "@", "A", "B", "C",
       "D", "E", "F", "G", "H", "I", "J", "K", "L", "M", "N", "O",
       "P", "Q", "R", "S", "T", "U", "V", "W", "X", "Y", "Z", "[",
       "\\", "]", "^", "_", "<U+0060>", "a", "b", "c", "d", "e", "f", "g",
       "h", "i", "j", "k", "l", "m", "n", "o", "p", "q", "r", "s",
       "t", "u", "v", "w", "x", "y", "z", "{", "|", "}", "~">>

HexDigit(n) ==
    <<"0", "1", "2", "3", "4", "5", "6", "7",
      "8", "9", "A", "B", "C", "D", "E", "F">>[n + 1]

\* The character of code point c: itself when printable ASCII, else written
\* <U+hex>.
Chr(c) ==
    IF c \in 32..126 THEN AsciiPrintable[c - 31]
    ELSE "<U+"
         \o (IF c >= 1048576 THEN HexDigit(c \div 1048576) ELSE "")
         \o (IF c >= 65536 THEN HexDigit((c \div 65536) % 16) ELSE "")
         \o HexDigit((c \div 4096) % 16) \o HexDigit((c \div 256) % 16)
         \o HexDigit((c \div 16) % 16) \o HexDigit(c % 16) \o ">"

\* The text of a sequence of code points.
Str(codes) == Join([i \in 1..Len(codes) |-> Chr(codes[i])], "")

\* ------------------------------------------------------------ route policy
TrafficAwareForHigh(severity) ==
    IF severity = "High" THEN <<"Traffic-Aware City Route", 18>>
    ELSE IF severity = "Medium" THEN <<"Traffic-Aware City Route", 18>>
    ELSE <<"Normal Shortest Route", 25>>

ai_route(severity) ==
    IF severity = "High" THEN <<"Emergency Green Corridor", 12>>
    ELSE IF severity = "Medium" THEN <<"Traffic-Aware City Route", 18>>
    ELSE <<"Normal Shortest Route", 25>>

\* ------------------------------------------------------------------ float()
\* float(text) of CPython (Unicode 14.0), on a text given as its code points.

\* The code points of the digit zero of every decimal-digit block; the nine
\* code points after each are its digits one to nine.
DigitZeros ==
    { 48, 1632, 1776, 1984, 2406, 2534, 2662, 2790, 2918, 3046,
      3174, 3302, 3430, 3558, 3664, 3792, 3872, 4160, 4240, 6112,
      6160, 6470, 6608, 6784, 6800, 6992, 7088, 7232, 7248, 42528,
      43216, 43264, 43472, 43504, 43600, 44016, 65296, 66720, 68912, 69734,
      69872, 69942, 70096, 70384, 70736, 70864, 71248, 71360, 71472, 71904,
      72016, 72784, 73040, 73120, 92768, 92864, 93008, 120782, 120792, 120802,
      120812, 120822, 123200, 123632, 125264, 130032 }

\* The white space float() strips from both ends.
Whitespace ==
    { 9, 10, 11, 12, 13, 32, 133, 160, 5760, 8192,
      8193, 8194, 8195, 8196, 8197, 8198, 8199, 8200, 8201, 8202,
      8232, 8233, 8239, 8287, 12288 }

IsDigit(c) == \E z \in DigitZeros : c - z \in 0..9
DigitVal(c) == c - (CHOOSE z \in DigitZeros : c - z \in 0..9)

Plus == 43
Minus == 45
Point == 46
Underscore == 95

RECURSIVE LStrip(_)
LStrip(s) ==
    IF s # <<>> /\ Head(s) \in Whitespace THEN LStrip(Tail(s)) ELSE s

RECURSIVE RStrip(_)
RStrip(s) ==
    IF s # <<>> /\ s[Len(s)] \in Whitespace
    THEN RStrip(SubSeq(s, 1, Len(s) - 1)) ELSE s

Strip(s) == RStrip(LStrip(s))

\* An underscore may only stand between two digits.
UnderscoresOK(s) ==
    \A i \in 1..Len(s) :
        s[i] = Underscore => /\ i > 1 /\ i < Len(s)
                             /\ IsDigit(s[i - 1]) /\ IsDigit(s[i + 1])

WithoutUnderscores(s) == SelectSeq(s, LAMBDA c : c # Underscore)

\* ASCII capitals to small letters.
LowerChar(c) == IF c \in 65..90 THEN c + 32 ELSE c
Lower(s) == [i \in 1..Len(s) |-> LowerChar(s[i])]

HasSign(s) == s # <<>> /\ Head(s) \in {Plus, Minus}
Unsigned(s) == IF HasSign(s) THEN Tail(s) ELSE s

\* The first position of s holding a character of cs, or 0.
IndexOf(s, cs) ==
    IF \E i \in 1..Len(s) : s[i] \in cs
    THEN CHOOSE i \in 1..Len(s) :
            s[i] \in cs /\ \A j \in 1..(i - 1) : s[j] \notin cs
    ELSE 0

AllDigits(s) == \A i \in 1..Len(s) : IsDigit(s[i])

\* The parts of an unsigned decimal literal: digits [. digits] [e [sign] digits]
ExponentMark == {101, 69}
Mantissa(body) ==
    LET e == IndexOf(body, ExponentMark)
    IN  IF e = 0 THEN body ELSE SubSeq(body, 1, e - 1)
HasExponent(body) == IndexOf(body, ExponentMark) # 0
Exponent(body) == SubSeq(body, IndexOf(body, ExponentMark) + 1, Len(body))
IntPart(body) ==
    LET m == Mantissa(body)
        d == IndexOf(m, {Point})
    IN  IF d = 0 THEN m ELSE SubSeq(m, 1, d - 1)
FracPart(body) ==
    LET m == Mantissa(body)
        d == IndexOf(m, {Point})
    IN  IF d = 0 THEN <<>> ELSE SubSeq(m, d + 1, Len(m))

IsDecimal(body) ==
    /\ AllDigits(IntPart(body))
    /\ AllDigits(FracPart(body))
    /\ Len(IntPart(body)) + Len(FracPart(body)) >= 1
    /\ HasExponent(body) =>
          /\ Unsigned(Exponent(body)) # <<>>
          /\ AllDigits(Unsigned(Exponent(body)))

\* "inf", "infinity", "nan" in any case.
IsInf(body) ==
    Lower(body) \in {<<105, 110, 102>>,
                     <<105, 110, 102, 105, 110, 105, 116, 121>>}
IsNan(body) == Lower(body) = <<110, 97, 110>>

\* float(text) of a str returns a number (TRUE) or raises ValueError (FALSE).
Coercible(text) ==
    LET s == Strip(text)
    IN  /\ UnderscoresOK(s)
        /\ LET body == Unsigned(WithoutUnderscores(s))
           IN  IsInf(body) \/ IsNan(body) \/ IsDecimal(body)

\* ---- the binary64 nearest to a decimal (ties to even)
\* A decimal is [int |-> digits, frac |-> digits], most significant first,
\* int without leading and frac without trailing zeros.
AllZero(ds) == \A i \in 1..Len(ds) : ds[i] = 0
\* The number of zeros ds begins with.
LeadingZeros(ds) ==
    IF AllZero(ds) THEN Len(ds)
    ELSE (CHOOSE i \in 1..Len(ds) :
             ds[i] # 0 /\ \A j \in 1..(i - 1) : ds[j] = 0) - 1
\* The position of the last digit of ds that is not zero, or 0.
LastNonZero(ds) ==
    IF AllZero(ds) THEN 0
    ELSE CHOOSE i \in 1..Len(ds) :
             ds[i] # 0 /\ \A j \in (i + 1)..Len(ds) : ds[j] = 0
StripLeadingZeros(ds) == SubSeq(ds, LeadingZeros(ds) + 1, Len(ds))
StripTrailingZeros(ds) == SubSeq(ds, 1, LastNonZero(ds))
Trim(x) ==
    [int |-> StripLeadingZeros(x.int), frac |-> StripTrailingZeros(x.frac)]
Zeros(n) == [i \in 1..n |-> 0]

\* 2s, digit by digit: a digit's carry comes from the digit after it alone.
DoubleDigits(s) ==
    [i \in 1..(Len(s) - 1) |->
        (2 * s[i] + (IF s[i + 1] >= 5 THEN 1 ELSE 0)) % 10]

\* s/2, digit by digit: a digit's borrow comes from the digit before it alone.
HalveDigits(s) ==
    [i \in 1..(Len(s) - 1) |-> (s[i + 1] + 10 * (s[i] % 2)) \div 2]

Split(d, n) ==
    Trim([int |-> SubSeq(d, 1, n), frac |-> SubSeq(d, n + 1, Len(d))])

\* The one element of a set of one element.
The(S) == CHOOSE v \in S : TRUE

Double(x) ==
    Split(DoubleDigits(<<0>> \o x.int \o x.frac \o <<0>>), Len(x.int) + 1)
Halve(x) ==
    Split(HalveDigits(<<0>> \o x.int \o x.frac \o <<0>>), Len(x.int))

\* x * 2^n and x / 2^n, by halves of n.
RECURSIVE DoubleN(_, _)
DoubleN(x, n) ==
    IF n = 0 THEN x
    ELSE IF n = 1 THEN Double(x)
    ELSE The({DoubleN(y, n - n \div 2) : y \in {DoubleN(x, n \div 2)}})
RECURSIVE HalveN(_, _)
HalveN(x, n) ==
    IF n = 0 THEN x
    ELSE IF n = 1 THEN Halve(x)
    ELSE The({HalveN(y, n - n \div 2) : y \in {HalveN(x, n \div 2)}})

MaxExp == 1023
MinExp == -1022
FractionBits == 52

\* 3.3219 < log2(10): a number of m digits before the point is at least
\* 2^((m - 1) * 3.3219), and one with z zeros after it at most 2^-(z * 3.3219).
Log2Of10 == 33219
Log2Scale == 10000

\* x = y * 2^e with 1 <= y < 2; x >= 1.
ScaleDown(x) ==
    LET n0 == ((Len(x.int) - 1) * Log2Of10) \div Log2Scale
    IN  The({ LET k == Min({j \in 0..5 : HalveN(y, j).int = <<1>>})
              IN  <<HalveN(y, k), n0 + k>> :
              y \in {HalveN(x, n0)} })

\* x = y * 2^e with 1 <= y < 2, or e = MinExp and y < 1; 0 < x < 1.
ScaleUp(x) ==
    LET n0 == Min({(LeadingZeros(x.frac) * Log2Of10) \div Log2Scale,
                   0 - MinExp})
    IN  The({ LET k == Min({j \in 0..6 : \/ DoubleN(y, j).int # <<>>
                                         \/ n0 + j = 0 - MinExp})
              IN  <<DoubleN(y, k), 0 - (n0 + k)>> :
              y \in {DoubleN(x, n0)} })

Scaled(x) == IF x.int # <<>> THEN ScaleDown(x) ELSE ScaleUp(x)

\* The first n binary digits of the fraction f, and what is left of it.
RECURSIVE BinaryFraction(_, _)
BinaryFraction(f, n) ==
    IF n = 0 THEN <<<<>>, f>>
    ELSE IF n = 1
    THEN The({ << <<IF d.int = <<>> THEN 0 ELSE 1>>, d.frac >> :
                 d \in {Double([int |-> <<>>, frac |-> f])} })
    ELSE The({ The({ <<a[1] \o b[1], b[2]>> :
                       b \in {BinaryFraction(a[2], n - n \div 2)} }) :
                 a \in {BinaryFraction(f, n \div 2)} })

\* bits + 1 in the last place; all ones carry into a leading one.
Increment(bits) ==
    LET zs == {i \in 1..Len(bits) : bits[i] = 0}
    IN  IF zs = {} THEN <<1>> \o Zeros(Len(bits))
        ELSE [i \in 1..Len(bits) |->
                IF i < Max(zs) THEN bits[i] ELSE IF i = Max(zs) THEN 1 ELSE 0]

Infinity(neg) == [neg |-> neg, class |-> "inf", bits |-> <<>>, exp |-> 0]
NotANumber(neg) == [neg |-> neg, class |-> "nan", bits |-> <<>>, exp |-> 0]
Finite(neg, bits, e) == [neg |-> neg, class |-> "finite", bits |-> bits, exp |-> e]

\* The bits, rounded half to even by what is left of the fraction.
Rounded(neg, bits, rest, e) ==
    LET up  == /\ rest # <<>>
               /\ \/ rest[1] > 5
                  \/ rest[1] = 5 /\ Len(rest) > 1
                  \/ rest = <<5>> /\ bits[Len(bits)] = 1
        inc == Increment(bits)
    IN  IF ~up THEN Finite(neg, bits, e)
        ELSE IF Len(inc) = Len(bits) THEN Finite(neg, inc, e)
        ELSE IF e + 1 > MaxExp THEN Infinity(neg)
        ELSE Finite(neg, SubSeq(inc, 1, Len(bits)), e + 1)

\* The binary64 nearest to the decimal x: sign, the 53 bits b0.b1...b52 and
\* the exponent e of the value b0.b1...b52 * 2^e (b0 = 0: subnormal or zero).
Binary64(neg, x) ==
    IF x.int = <<>> /\ x.frac = <<>>
    THEN Finite(neg, Zeros(FractionBits + 1), MinExp)
    ELSE The({ IF y[2] > MaxExp THEN Infinity(neg)
               ELSE The({ Rounded(neg,
                             <<IF y[1].int = <<>> THEN 0 ELSE 1>> \o bf[1],
                             bf[2], y[2]) :
                          bf \in {BinaryFraction(y[1].frac, FractionBits)} }) :
               y \in {Scaled(x)} })

RECURSIVE DigitsToNat(_)
DigitsToNat(ds) ==
    IF ds = <<>> THEN 0
    ELSE 10 * DigitsToNat(SubSeq(ds, 1, Len(ds) - 1)) + DigitVal(ds[Len(ds)])

\* Beyond these powers of ten every decimal is an overflow or rounds to zero.
HugeExp == 400

RECURSIVE NumDigits(_)
NumDigits(n) == IF n < 10 THEN 1 ELSE 1 + NumDigits(n \div 10)

\* The exponent written after e: the exact integer while its magnitude is at
\* most cap, and cap + 1 with the sign written for every larger one.
ExponentValue(x, cap) ==
    LET ds  == Unsigned(x)
        sig == StripLeadingZeros([i \in 1..Len(ds) |-> DigitVal(ds[i])])
        n   == IF Len(sig) > NumDigits(cap) THEN cap + 1
               ELSE Min({DigitsToNat([i \in 1..Len(sig) |-> 48 + sig[i]]),
                         cap + 1})
    IN  IF HasSign(x) /\ Head(x) = Minus THEN 0 - n ELSE n

\* digits * 10^k as a decimal.
Decimal(digits, k) ==
    LET n == Len(digits)
    IN  IF k >= 0 THEN Trim([int |-> digits \o Zeros(k), frac |-> <<>>])
        ELSE IF n + k > 0
        THEN Trim([int |-> SubSeq(digits, 1, n + k),
                   frac |-> SubSeq(digits, n + k + 1, n)])
        ELSE Trim([int |-> <<>>, frac |-> Zeros(0 - (n + k)) \o digits])

\* The number float(text) returns, for a coercible text.
FloatValue(text) ==
    LET s    == WithoutUnderscores(Strip(text))
        neg  == HasSign(s) /\ Head(s) = Minus
        body == Unsigned(s)
    IN  IF IsInf(body) THEN Infinity(neg)
        ELSE IF IsNan(body) THEN NotANumber(neg)
        ELSE LET ds   == IntPart(body) \o FracPart(body)
                 sig  == StripLeadingZeros([i \in 1..Len(ds) |-> DigitVal(ds[i])])
                 lead == Len(sig) - Len(FracPart(body))
                 \* lead lies within Len(ds) of zero, so an exponent beyond
                 \* HugeExp + Len(ds) decides the result by its sign alone.
                 e    == IF HasExponent(body)
                         THEN ExponentValue(Exponent(body), HugeExp + Len(ds))
                         ELSE 0
             IN  IF sig = <<>> THEN Binary64(neg, [int |-> <<>>, frac |-> <<>>])
                 ELSE IF lead + e > HugeExp THEN Infinity(neg)
                 ELSE IF lead + e < 0 - HugeExp
                 THEN Binary64(neg, [int |-> <<>>, frac |-> <<>>])
                 ELSE Binary64(neg, Decimal(sig, e - Len(FracPart(body))))

\* float(x): of a str, the number or ValueError; of None, TypeError.
float(x) ==
    IF x.kind = "None" THEN [raised |-> TRUE, exception |-> "TypeError"]
    ELSE IF ~Coercible(x.text)
    THEN [raised |-> TRUE, exception |-> "ValueError"]
    ELSE [raised |-> FALSE, value |-> FloatValue(x.text)]

\* "{x}" in an f-string.
Format(x) == IF x.kind = "None" THEN "None" ELSE Str(x.text)

\* ------------------------------------------------------------------- state
\* The threads that can run the handler, in the order a request takes the
\* first free one.
WorkerOrder == <<"w1", "w2">>
Workers == Range(WorkerOrder)

VARIABLES
    vehicles,         \* module global: vehicle name -> officer names
    incident_log,     \* module global: the history, a list of records
    map_file,         \* the file /tmp/map.html: <<>> or <<document>>
    folium_rejects_nan,   \* the folium installed: whether its check of a
                      \* location refuses a nan; fixed for the process
    pc,               \* per worker: position in dispatch_incident
    args,             \* per worker: parameters of its call
    stage_msg,        \* per worker, local: the timeline, one line per stage
    vehicle, officers, route, eta, equipment_count,   \* per worker, locals
    df, eq_chart, water_chart, report,                \* per worker, locals
    result,           \* what the step just taken returned to the caller of
                      \* dispatch_incident: <<>> or the five outputs
    error,            \* the exception the step just taken raised, or ""
    call_no,          \* history variable: per worker, the number of its call
    calls,            \* history variable: the inputs of every call, by number
    outcomes,         \* history variable: "running", "returned" or "failed"
    rec_pos,          \* history variable: where each call's record was put
    appended,         \* history variable: how many records each call added
    last              \* history variable: the number of the call the step
                      \* just taken ended, 0 if none

globals == <<vehicles, incident_log, map_file, folium_rejects_nan>>
locals  == <<stage_msg, vehicle, officers, route, eta, equipment_count,
             df, eq_chart, water_chart, report>>
history == <<call_no, calls, outcomes, rec_pos, appended, last>>
vars    == <<globals, pc, args, locals, result, error, history>>

NoArgs ==
    [incident_type |-> "", severity |-> "",
     latitude |-> [kind |-> "None", text |-> <<>>],
     longitude |-> [kind |-> "None", text |-> <<>>],
     equipment |-> <<>>, water_used_liters |-> 0]
NoCounts == <<>>
NoTable  == [columns |-> <<>>, rows |-> <<>>]
NoImage  == [kind |-> "none"]
NoResult == <<>>

\* What the form (or a direct caller) passes to dispatch_incident.  The water
\* amount is a number; the equipment selections are among MoreInputs.
FormInputs ==
    { \* latitude "12.9756", longitude "77.5950"
      [incident_type |-> "Building Fire", severity |-> "High",
       latitude  |-> [kind |-> "str", text |-> <<49, 50, 46, 57, 55, 53, 54>>],
       longitude |-> [kind |-> "str", text |-> <<55, 55, 46, 53, 57, 53, 48>>],
       equipment |-> <<>>, water_used_liters |-> 500],
      \* latitude "abc", longitude "77.5950"
      [incident_type |-> "Road Accident", severity |-> "Medium",
       latitude  |-> [kind |-> "str", text |-> <<97, 98, 99>>],
       longitude |-> [kind |-> "str", text |-> <<55, 55, 46, 53, 57, 53, 48>>],
       equipment |-> <<>>, water_used_liters |-> 250],
      \* latitude "1e400", longitude None (a direct caller)
      [incident_type |-> "Gas Leak", severity |-> "Critical",
       latitude  |-> [kind |-> "str", text |-> <<49, 101, 52, 48, 48>>],
       longitude |-> [kind |-> "None", text |-> <<>>],
       equipment |-> <<>>, water_used_liters |-> 500],
      \* latitude "12.9756", longitude "NaN"
      [incident_type |-> "Building Fire", severity |-> "Low",
       latitude  |-> [kind |-> "str", text |-> <<49, 50, 46, 57, 55, 53, 54>>],
       longitude |-> [kind |-> "str", text |-> <<78, 97, 78>>],
       equipment |-> <<>>, water_used_liters |-> 0] }

\* Further inputs, with the equipment selections, for the session of calls
\* taken in turn.
MoreInputs ==
    { \* latitude: a vertical tab, Arabic-Indic 13, a space; longitude "7_7.5e0"
      [incident_type |-> "", severity |-> "Low",
       latitude  |-> [kind |-> "str", text |-> <<11, 1633, 1635, 32>>],
       longitude |-> [kind |-> "str", text |-> <<55, 95, 55, 46, 53, 101, 48>>],
       equipment |-> <<>>, water_used_liters |-> 0],
      \* latitude "12.9756", longitude "77.5950", one label of the catalog
      [incident_type |-> "Building Fire", severity |-> "High",
       latitude  |-> [kind |-> "str", text |-> <<49, 50, 46, 57, 55, 53, 54>>],
       longitude |-> [kind |-> "str", text |-> <<55, 55, 46, 53, 57, 53, 48>>],
       equipment |-> <<"Fire Extinguisher">>, water_used_liters |-> 500],
      \* latitude "12.9756", longitude "" (nothing typed)
      [incident_type |-> "Forest Fire", severity |-> "high",
       latitude  |-> [kind |-> "str", text |-> <<49, 50, 46, 57, 55, 53, 54>>],
       longitude |-> [kind |-> "str", text |-> <<>>],
       equipment |-> <<"Water Hose", "Ladder">>, water_used_liters |-> 1000],
      \* latitude "-.5", longitude "+1."
      [incident_type |-> "Gas Leak", severity |-> "Critical",
       latitude  |-> [kind |-> "str", text |-> <<45, 46, 53>>],
       longitude |-> [kind |-> "str", text |-> <<43, 49, 46>>],
       equipment |-> <<"Ladder">>, water_used_liters |-> 500],
      \* latitude None (a direct caller), longitude "abc"
      [incident_type |-> "Building Fire", severity |-> "Medium",
       latitude  |-> [kind |-> "None", text |-> <<>>],
       longitude |-> [kind |-> "str", text |-> <<97, 98, 99>>],
       equipment |-> <<"Hydraulic Cutter", "Hydraulic Cutter">>, water_used_liters |-> 500] }

InputsInTurn == FormInputs \cup MoreInputs

\* ------------------------------------------------------------- dispatch data
StageDispatched == "Dispatched: Vehicle is on the way..."
StageOnScene    == "On Scene: Firefighters reached incident site..."
StageResolved   == "Resolved: Incident cleared successfully!"

\* random.choice(list(vehicles.keys())): any key.
random_choice(roster) == DOMAIN roster

FirstRosterOfficers(roster, v) == Join(roster["Fire Engine 1"], ", ")

\* ", ".join(vehicles[vehicle])
officers_of(roster, v) == Join(roster[v], ", ")

RandIntFromZero(a, b) == 0..b

\* random.randint(a, b): any integer of a..b.
randint(a, b) == a..b

\* {eq: random.randint(1,3) for eq in equipment}: the possible dictionaries.
equipment_counts(equipment) == [Range(equipment) -> randint(1, 3)]

RecordDefaultWater(a, v, o, r, e) ==
    [Incident       |-> a.incident_type,
     Location       |-> Format(a.latitude) \o ", " \o Format(a.longitude),
     Severity       |-> a.severity,
     Vehicle        |-> v,
     Officers       |-> o,
     Route          |-> r,
     ETA_min        |-> e,
     Equipment_Used |-> Join(a.equipment, ", "),
     Water_Used_L   |-> 500]

\* The dictionary dispatch_incident appends to the history.
Record(a, v, o, r, e) ==
    [Incident       |-> a.incident_type,
     Location       |-> Format(a.latitude) \o ", " \o Format(a.longitude),
     Severity       |-> a.severity,
     Vehicle        |-> v,
     Officers       |-> o,
     Route          |-> r,
     ETA_min        |-> e,
     Equipment_Used |-> Join(a.equipment, ", "),
     Water_Used_L   |-> a.water_used_liters]

RecordColumns ==
    <<"Incident", "Location", "Severity", "Vehicle", "Officers", "Route",
      "ETA (min)", "Equipment Used", "Water Used (L)">>

LogPrepend(log, rec) == <<rec>> \o log
LogReplaceLast(log, rec) ==
    IF log = <<>> THEN <<rec>> ELSE SubSeq(log, 1, Len(log) - 1) \o <<rec>>
LogUnchanged(log, rec) == log

\* incident_log.append(record)
log_append(log, rec) == Append(log, rec)

\* pd.DataFrame(log): one row per record, in list order.
DataFrame(log) ==
    [columns |-> IF log = <<>> THEN <<>> ELSE RecordColumns, rows |-> log]

generate_equipment_chart(equipment_counts_) ==
    [kind |-> "bar", title |-> "Equipment Usage", ylabel |-> "Units Used",
     bars |-> equipment_counts_]

\* One bar per row of the table, at the row's index (from 0).
generate_water_chart(log) ==
    IF DataFrame(log).rows = <<>>
    THEN [kind |-> "text", text |-> "No Incidents Yet"]
    ELSE [kind |-> "bar", title |-> "Water Usage per Incident",
          ylabel |-> "Liters", xlabel |-> "Incident #",
          bars |-> [i \in 1..Len(log) |-> <<i - 1, log[i].Water_Used_L>>]]

\* The literals 12.9716 and 77.5946 of generate_map.
station == <<FloatValue(<<49, 50, 46, 57, 55, 49, 54>>),
             FloatValue(<<55, 55, 46, 53, 57, 52, 54>>)>>
map_path == "/tmp/map.html"

MapDocument(lat, lon) ==
    [location |-> station,
     path     |-> <<station, <<lat, lon>>>>,
     markers  |-> << [at |-> station, tooltip |-> "Fire Station"],
                     [at |-> <<lat, lon>>, tooltip |-> "Incident Location"] >>]

GenerateMapLatitudeOnly(latitude, longitude, rejects_nan) ==
    LET lat == float(latitude)
    IN  IF lat.raised THEN lat
        ELSE [raised |-> FALSE,
              document |-> MapDocument(lat.value, station[2]),
              path |-> map_path]

\* folium's check of a location (AntPath, Marker).  The repository pins no
\* version of folium: one that validates locations refuses a nan with
\* ValueError, one that does not takes every float.
validate_location(lat, lon, rejects_nan) ==
    rejects_nan => (lat.class # "nan" /\ lon.class # "nan")

\* generate_map(lat, lon): float(lat), float(lon), then the map with the path
\* from the station to the incident, saved at map_path.  A failed float()
\* raises before anything is built; a location AntPath refuses raises
\* ValueError before anything is saved.
generate_map(latitude, longitude, rejects_nan) ==
    LET lat == float(latitude)
    IN  IF lat.raised THEN lat
        ELSE LET lon == float(longitude)
             IN  IF lon.raised THEN lon
                 ELSE IF ~validate_location(lat.value, lon.value, rejects_nan)
                 THEN [raised |-> TRUE, exception |-> "ValueError"]
                 ELSE [raised |-> FALSE,
                       document |-> MapDocument(lat.value, lon.value),
                       path |-> map_path]

\* The f-string of dispatch_incident, line by line.
report_text(a, v, o, r, e, stages) ==
    <<"",
      "-------- INCIDENT RESPONSE REPORT --------",
      "",
      "Incident Type : " \o a.incident_type,
      "Location      : " \o Format(a.latitude) \o ", " \o Format(a.longitude),
      "Severity      : " \o a.severity,
      "",
      "Vehicle       : " \o v,
      "Officers    : " \o o,
      "",
      "AI Route      : " \o r,
      "ETA           : " \o ToString(e) \o " minutes",
      "",
      "Equipment Used:",
      Join(a.equipment, ", "),
      "Water Used: " \o ToString(a.water_used_liters) \o " Liters",
      "",
      "Timeline:">>
    \o stages \o
    <<"",
      "Status: INCIDENT SUCCESSFULLY RESOLVED",
      "--------------------------------------------",
      "">>

\* -------------------------------------------------------------------- Init
Init ==
    /\ vehicles = VehicleRoster
    /\ incident_log = <<>>
    /\ map_file = <<>>
    /\ folium_rejects_nan \in BOOLEAN
    /\ pc = [w \in Workers |-> "idle"]
    /\ args = [w \in Workers |-> NoArgs]
    /\ stage_msg = [w \in Workers |-> <<>>]
    /\ vehicle = [w \in Workers |-> ""]
    /\ officers = [w \in Workers |-> ""]
    /\ route = [w \in Workers |-> ""]
    /\ eta = [w \in Workers |-> 0]
    /\ equipment_count = [w \in Workers |-> NoCounts]
    /\ df = [w \in Workers |-> NoTable]
    /\ eq_chart = [w \in Workers |-> NoImage]
    /\ water_chart = [w \in Workers |-> NoImage]
    /\ report = [w \in Workers |-> <<>>]
    /\ result = NoResult
    /\ error = ""
    /\ call_no = [w \in Workers |-> 0]
    /\ calls = <<>> /\ outcomes = <<>> /\ rec_pos = <<>> /\ appended = <<>>
    /\ last = 0

\* ----------------------------------------------------------------- actions
\* Steps that touch only the locals of a call are taken together with the
\* stage they belong to; every read and write of a global is a step of its
\* own, so that calls interleave at each of them.
Free(w) == pc[w] = "idle"
NoneRunning == \A w \in Workers : Free(w)
FirstFree ==
    WorkerOrder[Min({i \in 1..Len(WorkerOrder) : Free(WorkerOrder[i])})]

\* The frame of a call that has ended is gone: its parameters and locals.
Discard(w) ==
    /\ pc' = [pc EXCEPT ![w] = "idle"]
    /\ args' = [args EXCEPT ![w] = NoArgs]
    /\ stage_msg' = [stage_msg EXCEPT ![w] = <<>>]
    /\ vehicle' = [vehicle EXCEPT ![w] = ""]
    /\ officers' = [officers EXCEPT ![w] = ""]
    /\ route' = [route EXCEPT ![w] = ""]
    /\ eta' = [eta EXCEPT ![w] = 0]
    /\ equipment_count' = [equipment_count EXCEPT ![w] = NoCounts]
    /\ df' = [df EXCEPT ![w] = NoTable]
    /\ eq_chart' = [eq_chart EXCEPT ![w] = NoImage]
    /\ water_chart' = [water_chart EXCEPT ![w] = NoImage]
    /\ report' = [report EXCEPT ![w] = <<>>]
    /\ call_no' = [call_no EXCEPT ![w] = 0]

\* A step that is not the end of a call hands nothing to a caller.
Quiet == result' = NoResult /\ error' = "" /\ last' = 0

\* A call of dispatch_incident begins, on a free worker; stage 1.
Dispatch(inp) ==
    /\ \E w \in Workers : Free(w)
    /\ Len(calls) < MaxCalls
    /\ LET w == FirstFree
       IN  /\ args' = [args EXCEPT ![w] = inp]
           /\ stage_msg' = [stage_msg EXCEPT ![w] = <<StageDispatched>>]
           /\ pc' = [pc EXCEPT ![w] = "dispatched"]
           /\ call_no' = [call_no EXCEPT ![w] = Len(calls) + 1]
    /\ calls' = Append(calls, inp)
    /\ outcomes' = Append(outcomes, "running")
    /\ rec_pos' = Append(rec_pos, 0)
    /\ appended' = Append(appended, 0)
    /\ Quiet
    /\ UNCHANGED <<globals, vehicle, officers, route, eta, equipment_count,
                   df, eq_chart, water_chart, report>>

\* The same, for the user who waits for the call before to end.
DispatchInTurn(inp) == NoneRunning /\ Dispatch(inp)

\* After the first wait: vehicle, officers, route and equipment counts are
\* picked; stage 2.
OnScene(w) ==
    /\ pc[w] = "dispatched"
    /\ \E v \in random_choice(vehicles) :
          /\ vehicle' = [vehicle EXCEPT ![w] = v]
          /\ officers' = [officers EXCEPT ![w] = officers_of(vehicles, v)]
    /\ route' = [route EXCEPT ![w] = ai_route(args[w].severity)[1]]
    /\ eta' = [eta EXCEPT ![w] = ai_route(args[w].severity)[2]]
    /\ \E c \in equipment_counts(args[w].equipment) :
          equipment_count' = [equipment_count EXCEPT ![w] = c]
    /\ stage_msg' = [stage_msg EXCEPT ![w] = Append(@, StageOnScene)]
    /\ pc' = [pc EXCEPT ![w] = "on_scene"]
    /\ Quiet
    /\ UNCHANGED <<globals, args, df, eq_chart, water_chart,
                   report, call_no, calls, outcomes, rec_pos, appended>>

\* After the second wait: the record is built and appended.
SaveHistory(w) ==
    /\ pc[w] = "on_scene"
    /\ incident_log' =
          log_append(incident_log,
                     Record(args[w], vehicle[w], officers[w], route[w], eta[w]))
    /\ pc' = [pc EXCEPT ![w] = "saved"]
    /\ appended' = [appended EXCEPT
                       ![call_no[w]] =
                           @ + Len(incident_log') - Len(incident_log)]
    /\ rec_pos' = [rec_pos EXCEPT ![call_no[w]] = Len(incident_log')]
    /\ Quiet
    /\ UNCHANGED <<vehicles, map_file, folium_rejects_nan, args, locals,
                   call_no, calls, outcomes>>

\* The table is made of the whole log as it is now; stage 3.
Resolved(w) ==
    /\ pc[w] = "saved"
    /\ df' = [df EXCEPT ![w] = DataFrame(incident_log)]
    /\ stage_msg' = [stage_msg EXCEPT ![w] = Append(@, StageResolved)]
    /\ pc' = [pc EXCEPT ![w] = "resolved"]
    /\ Quiet
    /\ UNCHANGED <<globals, args, vehicle, officers, route, eta,
                   equipment_count, eq_chart, water_chart, report,
                   call_no, calls, outcomes, rec_pos, appended>>

\* After the third wait: the two charts, the water chart of the whole log as
\* it is now, and the report.
RenderCharts(w) ==
    /\ pc[w] = "resolved"
    /\ eq_chart' =
          [eq_chart EXCEPT ![w] = generate_equipment_chart(equipment_count[w])]
    /\ water_chart' =
          [water_chart EXCEPT ![w] = generate_water_chart(incident_log)]
    /\ report' =
          [report EXCEPT ![w] = report_text(args[w], vehicle[w], officers[w],
                                            route[w], eta[w], stage_msg[w])]
    /\ pc' = [pc EXCEPT ![w] = "reported"]
    /\ Quiet
    /\ UNCHANGED <<globals, args, stage_msg, vehicle, officers, route, eta,
                   equipment_count, df,
                   call_no, calls, outcomes, rec_pos, appended>>

\* generate_map for every input of the model, under either folium.
MapOf ==
    [inp \in InputsInTurn |->
        [r \in BOOLEAN |-> generate_map(inp.latitude, inp.longitude, r)]]
Map(w) == MapOf[args[w]][folium_rejects_nan]

\* generate_map succeeds in both conversions and builds the map, and saves it
\* over the file; the call has not returned yet.
GenerateMapSave(w) ==
    /\ pc[w] = "reported"
    /\ ~Map(w).raised
    /\ map_file' = <<Map(w).document>>
    /\ pc' = [pc EXCEPT ![w] = "mapped"]
    /\ Quiet
    /\ UNCHANGED <<vehicles, incident_log, folium_rejects_nan, args, locals,
                   call_no, calls, outcomes, rec_pos, appended>>

\* generate_map returns the path and dispatch_incident returns the five
\* outputs to the caller.
GenerateMapReturn(w) ==
    /\ pc[w] = "mapped"
    /\ result' = <<report[w], df[w], eq_chart[w], water_chart[w],
                   Map(w).path>>
    /\ error' = ""
    /\ outcomes' = [outcomes EXCEPT ![call_no[w]] = "returned"]
    /\ last' = call_no[w]
    /\ Discard(w)
    /\ UNCHANGED <<globals, calls, rec_pos, appended>>

\* generate_map raises: the exception leaves dispatch_incident.
GenerateMapRaise(w) ==
    /\ pc[w] = "reported"
    /\ Map(w).raised
    /\ result' = NoResult
    /\ error' = Map(w).exception
    /\ outcomes' = [outcomes EXCEPT ![call_no[w]] = "failed"]
    /\ last' = call_no[w]
    /\ Discard(w)
    /\ UNCHANGED <<globals, calls, rec_pos, appended>>

Step(w) ==
    \/ OnScene(w)
    \/ SaveHistory(w)
    \/ Resolved(w)
    \/ RenderCharts(w)
    \/ GenerateMapSave(w)
    \/ GenerateMapReturn(w)
    \/ GenerateMapRaise(w)

Next ==
    \/ \E inp \in FormInputs : Dispatch(inp)
    \/ \E w \in Workers : Step(w)

Spec == Init /\ [][Next]_vars

NextInTurn ==
    \/ \E inp \in InputsInTurn : DispatchInTurn(inp)
    \/ \E w \in Workers : Step(w)

SpecSequential == Init /\ [][NextInTurn]_vars

\* ================================================================= claims
Running(w) == ~Free(w)
ThreeStages == <<StageDispatched, StageOnScene, StageResolved>>

\* The step just taken ended a call, by a return or by an exception.
Returned == last # 0 /\ outcomes[last] = "returned"
Failed == last # 0 /\ outcomes[last] = "failed"

\* The record call k appended.
HasRecord(k) == rec_pos[k] \in 1..Len(incident_log)
RecordBy(k) == incident_log[rec_pos[k]]

\* float(x) raises.
Rejected(x) == x.kind = "None" \/ ~Coercible(x.text)
\* The exception of the first coordinate of a that float() rejects, or "".
RejectionOf(a) ==
    IF Rejected(a.latitude)
    THEN (IF a.latitude.kind = "None" THEN "TypeError" ELSE "ValueError")
    ELSE IF Rejected(a.longitude)
    THEN (IF a.longitude.kind = "None" THEN "TypeError" ELSE "ValueError")
    ELSE ""
\* The same, worked out once for every input of the model.
Rejection == [a \in InputsInTurn |-> RejectionOf(a)]
BadCoordinates(a) == Rejection[a] # ""
CoercionError(a) == Rejection[a]
\* float() accepts both coordinates of a and makes a nan of one.
NanOf(a) ==
    /\ ~Rejected(a.latitude) /\ ~Rejected(a.longitude)
    /\ \/ FloatValue(a.latitude.text).class = "nan"
       \/ FloatValue(a.longitude.text).class = "nan"
NanTable == [a \in InputsInTurn |-> NanOf(a)]
NanCoordinates(a) == NanTable[a]
\* The folium installed refuses the location made of the coordinates of a.
Refused(a) == NanCoordinates(a) /\ folium_rejects_nan

\* The record rec carries the inputs a of a call.
RecordOfCall(rec, a) ==
    /\ rec.Incident = a.incident_type
    /\ rec.Location = Format(a.latitude) \o ", " \o Format(a.longitude)
    /\ rec.Severity = a.severity
    /\ rec.Equipment_Used = Join(a.equipment, ", ")
    /\ rec.Water_Used_L = a.water_used_liters

\* The timeline lines of a report.
Timeline(text) == SubSeq(text, 19, 21)

\* The timeline of a call holds the stages passed so far, in order.
StagesInOrder(w) ==
    /\ pc[w] = "dispatched" => stage_msg[w] = <<StageDispatched>>
    /\ pc[w] \in {"on_scene", "saved"} =>
          stage_msg[w] = <<StageDispatched, StageOnScene>>
    /\ pc[w] \in {"resolved", "reported", "mapped"} =>
          stage_msg[w] = ThreeStages

C2_CoercionFailure ==
    [][\A w \in Workers :
          (Running(w) /\ BadCoordinates(args[w]) /\ pc'[w] # pc[w]) =>
              /\ map_file' = map_file
              /\ result' = NoResult
              /\ ~Returned'
              /\ pc[w] = "reported" =>
                    /\ Failed' /\ last' = call_no[w]
                    /\ error' = CoercionError(args[w])]_vars

C2_Witness ==
    /\ Failed /\ error = "TypeError" /\ result = NoResult
    /\ calls[last].longitude.kind = "None"
    /\ outcomes = <<"failed", "failed">>
    /\ Rejected(calls[1].latitude) /\ ~Rejected(calls[1].longitude)
    /\ map_file = <<>>

\* C3: from an empty history, after a sequence of N calls, each begun when the
\* one before has ended, the history holds N records, the i-th being the one
\* made from the i-th call's inputs, and the table the N-th call returns has
\* the same N rows in the same order.
C3_HistoryOrder ==
    /\ \A i \in 1..Len(incident_log) :
          i <= Len(calls) /\ rec_pos[i] = i
                          /\ RecordOfCall(incident_log[i], calls[i])
    /\ NoneRunning => Len(incident_log) = Len(calls)
    /\ Returned =>
          /\ last = Len(calls)
          /\ Len(result[2].rows) = last
          /\ result[2].rows = incident_log

C3_Witness ==
    /\ Returned
    /\ Len(calls) = 2 /\ last = 2
    /\ Len(incident_log) = 2
    /\ incident_log[1].Incident = "Forest Fire"
    /\ incident_log[2].Incident = "Building Fire"
    /\ incident_log[2].Severity = "High"
    /\ result[2].rows = incident_log

\* C4 as stated: every record of the history has an equipment selection
\* inside the equipment catalog and a severity among Low, Medium, High,
\* whatever was passed to dispatch_incident.
C4_RecordsWithinCatalog ==
    \A k \in 1..Len(calls) :
        HasRecord(k) =>
            /\ RecordBy(k).Severity \in SeverityChoices
            /\ RecordBy(k).Equipment_Used = Join(calls[k].equipment, ", ")
            /\ Range(calls[k].equipment) \subseteq Range(equipment_list)

\* C5: every record names a vehicle of the roster together with exactly that
\* vehicle's officers in roster order, never another vehicle's, and no
\* dispatch changes the roster.
C5_VehicleRoster ==
    /\ vehicles = VehicleRoster
    /\ \A i \in 1..Len(incident_log) :
          LET rec == incident_log[i]
          IN  /\ rec.Vehicle \in DOMAIN VehicleRoster
              /\ rec.Officers = Join(VehicleRoster[rec.Vehicle], ", ")
              /\ \A v \in DOMAIN VehicleRoster \ {rec.Vehicle} :
                    rec.Officers # Join(VehicleRoster[v], ", ")

C5_Witness ==
    /\ Len(incident_log) = 2
    /\ incident_log[1].Vehicle = "Rescue Van 1"
    /\ incident_log[1].Officers = "Officer F, Officer G"
    /\ incident_log[2].Vehicle = "Fire Engine 1"
    /\ incident_log[2].Officers = "Officer A, Officer B, Officer C"
    /\ pc["w1"] = "saved" /\ pc["w2"] = "saved"

\* The documented route for a severity.
DocumentedRoute(severity, label, minutes) ==
    /\ severity = "High" =>
          label = "Emergency Green Corridor" /\ minutes = 12
    /\ severity = "Medium" =>
          label = "Traffic-Aware City Route" /\ minutes = 18
    /\ severity \notin {"High", "Medium"} =>
          label = "Normal Shortest Route" /\ minutes = 25

\* C6: the route chosen in a call, and the route of every record, is the
\* documented pair for the severity (High, Medium, anything else); records of
\* equal severity have equal routes; and the step that consults the route
\* policy leaves the history, the roster, the map file and the parameters of
\* every call as they were.
C6_RoutePolicy ==
    /\ [](/\ \A w \in Workers :
                pc[w] \in {"on_scene", "saved", "resolved", "reported",
                           "mapped"} =>
                    DocumentedRoute(args[w].severity, route[w], eta[w])
          /\ \A i \in 1..Len(incident_log) :
                DocumentedRoute(incident_log[i].Severity,
                                incident_log[i].Route, incident_log[i].ETA_min)
          /\ \A i, j \in 1..Len(incident_log) :
                incident_log[i].Severity = incident_log[j].Severity =>
                    /\ incident_log[i].Route = incident_log[j].Route
                    /\ incident_log[i].ETA_min = incident_log[j].ETA_min)
    /\ [][(\E w \in Workers : pc[w] = "dispatched" /\ pc'[w] # pc[w]) =>
             UNCHANGED <<globals, args>>]_vars

C6_Witness ==
    /\ Len(incident_log) = 2
    /\ incident_log[1].Severity = "High"
    /\ incident_log[1].ETA_min = 12
    /\ incident_log[2].Severity = "Critical"
    /\ incident_log[2].Route = "Normal Shortest Route"
    /\ pc["w1"] = "saved" /\ args["w1"].severity = "High"
    /\ pc["w2"] = "saved" /\ route["w2"] = "Normal Shortest Route"
    /\ eta["w2"] = 25

\* C7: a dispatch that returns has appended exactly one record; the record
\* holds the call's incident type, severity and water, and the policy's route
\* and ETA for that severity; the report names the record's vehicle, route
\* and ETA (High: Emergency Green Corridor, 12 minutes; water 500: 500).
C7_DispatchRecord ==
    Returned =>
        /\ appended[last] = 1
        /\ HasRecord(last)
        /\ LET a   == calls[last]
               rec == RecordBy(last)
               txt == result[1]
           IN  /\ rec.Incident = a.incident_type
               /\ rec.Severity = a.severity
               /\ rec.Water_Used_L = a.water_used_liters
               /\ DocumentedRoute(a.severity, rec.Route, rec.ETA_min)
               /\ rec.Vehicle \in DOMAIN VehicleRoster
               /\ txt[8] = "Vehicle       : " \o rec.Vehicle
               /\ txt[11] = "AI Route      : " \o rec.Route
               /\ txt[12] = "ETA           : " \o ToString(rec.ETA_min)
                                \o " minutes"
               /\ txt[16] = "Water Used: " \o ToString(rec.Water_Used_L)
                                \o " Liters"
               /\ a.severity = "High" =>
                     /\ txt[11] = "AI Route      : Emergency Green Corridor"
                     /\ txt[12] = "ETA           : 12 minutes"

C7_Witness ==
    /\ Returned
    /\ calls[last].incident_type = "Building Fire"
    /\ calls[last].severity = "High"
    /\ calls[last].water_used_liters = 500
    /\ appended[last] = 1
    /\ Len(incident_log) = 2
    /\ rec_pos[last] = 1
    /\ incident_log[1].Water_Used_L = 500
    /\ result[1][12] = "ETA           : 12 minutes"
    /\ result[1][16] = "Water Used: 500 Liters"
    /\ \E w \in Workers : pc[w] = "saved"

\* C8: the equipment allocation of a dispatch has exactly the selected labels
\* as keys (catalog labels or not, repeated or not), every count is in 1..3,
\* and the empty selection gives the empty mapping.
C8_EquipmentAllocation ==
    \A w \in Workers :
        pc[w] \in {"on_scene", "saved", "resolved", "reported",
                   "mapped"} =>
            /\ DOMAIN equipment_count[w] = Range(args[w].equipment)
            /\ \A k \in DOMAIN equipment_count[w] :
                  equipment_count[w][k] \in 1..3
            /\ args[w].equipment = <<>> => equipment_count[w] = <<>>

C8_Witness ==
    /\ pc["w1"] = "on_scene"
    /\ args["w1"].equipment = <<"Water Hose", "Ladder">>
    /\ DOMAIN equipment_count["w1"] = {"Water Hose", "Ladder"}
    /\ equipment_count["w1"]["Ladder"] = 3
    /\ equipment_count["w1"]["Water Hose"] = 1
    /\ Len(incident_log) = 1
    /\ incident_log[1].Equipment_Used = "Hydraulic Cutter, Hydraulic Cutter"

\* C9: every step keeps the records already in the history, in content and
\* position, and never shortens it; only the save step of a dispatch changes
\* the history at all.
C9_AppendOnly ==
    [][/\ Len(incident_log') >= Len(incident_log)
       /\ SubSeq(incident_log', 1, Len(incident_log)) = incident_log
       /\ incident_log' # incident_log =>
             \E w \in Workers : pc[w] = "on_scene" /\ pc'[w] = "saved"]_vars

C9_Witness ==
    /\ Failed
    /\ Len(incident_log) = 2
    /\ rec_pos[last] = 1
    /\ incident_log[1].Incident = "Road Accident"
    /\ incident_log[2].Incident = "Building Fire"
    /\ \E w \in Workers : pc[w] = "reported"

\* C10: a dispatch that fails on the coordinates has already appended its
\* one record; the record of every failed dispatch stays in the history, and
\* is a row of the table and a bar of the water chart returned by every
\* dispatch that saved its own record later.
C10_FailedDispatchRecorded ==
    \A i \in 1..Len(calls) :
        outcomes[i] = "failed" =>
            /\ appended[i] = 1
            /\ HasRecord(i)
            /\ RecordOfCall(RecordBy(i), calls[i])
            /\ (Returned /\ rec_pos[last] > rec_pos[i]) =>
                  /\ rec_pos[i] <= Len(result[2].rows)
                  /\ result[2].rows[rec_pos[i]] = RecordBy(i)
                  /\ rec_pos[i] <= Len(result[4].bars)
                  /\ result[4].bars[rec_pos[i]]
                        = <<rec_pos[i] - 1, calls[i].water_used_liters>>

C10_Witness ==
    /\ Returned
    /\ outcomes = <<"failed", "returned">>
    /\ BadCoordinates(calls[1])
    /\ Len(result[2].rows) = 2
    /\ result[2].rows[1].Location = "abc, 77.5950"
    /\ result[4].bars = <<<<0, 250>>, <<1, 500>>>>
    /\ result[2].rows[2].Location = "12.9756, 77.5950"

====
